---------------------------- MODULE Spec2Model ----------------------------
(***************************************************************************)
(* The file-based cache of the Legal Knowledge MCP server (cache.ts):      *)
(* one index file plus one record file per entry, read and rewritten by    *)
(* every operation.  The persisted state (index file, record files) and    *)
(* the clock are the variables; every exported operation is one action.    *)
(***************************************************************************)
EXTENDS Integers, Sequences, FiniteSets, TLC

VARIABLES
    indexFile,      \* content of <cacheDir>/index.json, or NoIndex
    files,          \* record files: path -> content, domain = existing paths
    now,            \* Date.now()
    cacheEnabled,   \* config.enabled as getCacheConfig() reports it
    last,           \* the call that just ran (none since the clock moved): arguments, return value
    written,        \* per key still in the index: what its last setCache stored (SpecRecorded: per key, every write)
    kg,             \* two generateCacheKey calls: inputs and returned keys
    configFails,    \* getCacheConfig() throws: no configuration file can be read
    ev,             \* one cleanupCache call on its own: inputs and outcome
    procs           \* per process of the shared-directory machine: its call in progress

vars == <<indexFile, files, now, cacheEnabled, last, written, kg, configFails, ev, procs>>

---------------------------------------------------------------------------
(* Bounds of the model and configuration values.                           *)

\* The clock runs from 0 to MaxTime.
MaxTime == 2

\* config.max_size_mb * 1024 * 1024, in bytes.
MaxSizeBytes == 2

\* config.ttl_hours * 60 * 60 * 1000, in ms.
DefaultTtlMs == 1

\* generateCacheKey is given mappings of at most MaxArgs arguments.
MaxArgs == 2

\* The processes sharing one cache directory make at most MaxCalls calls in all.
MaxCalls == 3

Keys == {"k1", "k2"}

\* The explicit TTLs a caller passes (ms).
TtlValues == {0}

Max(a, b) == IF a >= b THEN a ELSE b

---------------------------------------------------------------------------
(* JSON text.  A text is a sequence of one-character strings.  The values  *)
(* are numbers and letter/digit strings (no escapes needed), and undefined *)
(* for an argument that is present without a value.                        *)

Num(n) == [t |-> "num", n |-> n]
Str(s) == [t |-> "str", s |-> s]
Undefined == [t |-> "undefined"]

DigitChars == <<"0", "1", "2", "3", "4", "5", "6", "7", "8", "9">>

RECURSIVE NumberToText(_)
NumberToText(n) ==
    IF n < 10 THEN <<DigitChars[n + 1]>>
    ELSE NumberToText(n \div 10) \o <<DigitChars[(n % 10) + 1]>>

DigitValue(c) == (CHOOSE i \in 1..10 : DigitChars[i] = c) - 1

RECURSIVE TextToNumber(_)
TextToNumber(text) ==
    IF Len(text) = 1 THEN DigitValue(text[1])
    ELSE 10 * TextToNumber(SubSeq(text, 1, Len(text) - 1)) + DigitValue(text[Len(text)])

\* JSON.stringify of a number or a string: a string is quoted.
JsonStringifyMutQuotesDropped(v) ==
    IF v.t = "num" THEN NumberToText(v.n) ELSE v.s

JsonStringify(v) ==
    IF v.t = "num" THEN NumberToText(v.n)
    ELSE <<"\"">> \o v.s \o <<"\"">>

\* JSON.parse of such a text.
JsonParse(text) ==
    IF text[1] = "\"" THEN Str(SubSeq(text, 2, Len(text) - 1))
    ELSE Num(TextToNumber(text))

\* The payloads callers cache: 7 and "7" (1 and 3 bytes of JSON).
DataValues == {Num(7), Str(<<"7">>)}

---------------------------------------------------------------------------
(* Files.                                                                  *)

NoIndex == [exists |-> FALSE]

\* hashKey: md5 hex digest of the key.  k1, k2, k3 have distinct digests; k1c is
\* a different string with the digest of k1 (md5 is not injective).
hashKey(key) ==
    CASE key = "k1" -> "h1"
      [] key = "k2" -> "h2"
      [] key = "k3" -> "h3"
      [] key = "k1c" -> "h1"

\* `${source}/${hash}.json`
FileName(source, key) == <<source, hashKey(key)>>

existsSync(fs, path) == path \in DOMAIN fs

writeFileSync(fs, path, content) ==
    [p \in DOMAIN fs \cup {path} |-> IF p = path THEN content ELSE fs[p]]

unlinkSync(fs, path) == [p \in DOMAIN fs \ {path} |-> fs[p]]

\* What a call meets: the configuration (config.enabled, or no readable
\* configuration at all) and the storage step that fails during the call, if any.
Faults == {"mkdir", "writeRecord", "writeIndex", "unlink"}

\* A call that throws to its caller.
Throws == [threw |-> TRUE]

\* getCacheConfig(): loadConfig() throws when it finds no configuration file.
getCacheConfig(env) == IF env.configFails THEN Throws ELSE [enabled |-> env.enabled]

\* try { if (existsSync(p)) unlinkSync(p) } catch {}: a failing unlink is
\* logged and the file stays.
DeleteRecordMutKeepsFile(env, fs, path) == fs

DeleteRecord(env, fs, path) ==
    IF existsSync(fs, path) /\ env.fault # "unlink" THEN unlinkSync(fs, path) ELSE fs

\* An index file that exists and whose content JSON.parse rejects: an empty or
\* truncated file.
Unparseable == [exists |-> TRUE, parses |-> FALSE]

\* A loadIndex that starts over with the total of a full cache.
loadIndexMutFullTotal(ix, t) ==
    IF ix = NoIndex \/ ix = Unparseable
    THEN [entries |-> <<>>, totalSize |-> MaxSizeBytes, lastCleanup |-> t]
    ELSE ix

\* loadIndex: the parsed index file; a fresh index when there is no file, or when
\* reading or parsing it throws (the catch logs and falls through).
loadIndex(ix, t) ==
    IF ix = NoIndex \/ ix = Unparseable
    THEN [entries |-> <<>>, totalSize |-> 0, lastCleanup |-> t]
    ELSE ix

---------------------------------------------------------------------------
(* index.entries is a JS object: its keys are unique and keep insertion    *)
(* order, so it is a sequence of entries with distinct keys.               *)

IndexKeys(entries) == {entries[i].key : i \in 1..Len(entries)}

HasKey(entries, key) == key \in IndexKeys(entries)

EntryOf(entries, key) ==
    entries[CHOOSE i \in 1..Len(entries) : entries[i].key = key]

\* delete index.entries[key]
DeleteKeyMutDeletesAll(entries, key) == <<>>

DeleteKey(entries, key) == SelectSeq(entries, LAMBDA e : e.key # key)

\* index.entries[key] = e: an existing key keeps its place, a new one goes last.
PutEntryMutReplacesAll(entries, e) == <<e>>

PutEntryMutAppends(entries, e) == Append(entries, e)

PutEntry(entries, e) ==
    IF HasKey(entries, e.key)
    THEN [i \in 1..Len(entries) |-> IF entries[i].key = e.key THEN e ELSE entries[i]]
    ELSE Append(entries, e)

\* Object.values(index.entries).reduce((sum, e) => sum + e.size, 0)
RECURSIVE SumSizes(_)
SumSizes(entries) ==
    IF entries = <<>> THEN 0 ELSE entries[1].size + SumSizes(Tail(entries))

\* now - entry.timestamp > entry.ttl
IsExpiredMutBoundaryExpires(e, t) == t - e.timestamp >= e.ttl

IsExpired(e, t) == t - e.timestamp > e.ttl


---------------------------------------------------------------------------
(* The record file of an entry: JSON.stringify(entry, null, 2) of          *)
(* {data, timestamp, ttl, source, size: 0}.  Only data is ever read back   *)
(* from a record, so the content is the JSON text of data.                 *)

EntryContent(data, t, ttl, source) == [data |-> JsonStringify(data)]

\* Buffer.byteLength(content, "utf-8"): the bytes of the payload's JSON; the
\* envelope around it (field names, timestamp, ttl, source) is left out.
ByteLength(content) == Len(content.data)

\* JSON.parse(content) succeeds: the text is a whole number or a closed string.
JsonParses(content) ==
    /\ Len(content.data) > 0
    /\ content.data[1] = "\"" =>
           Len(content.data) >= 2 /\ content.data[Len(content.data)] = "\""

\* JSON.parse(content).data
ContentData(content) == JsonParse(content.data)

---------------------------------------------------------------------------
(* cleanupCache                                                            *)

\* entries.sort((a, b) => a[1].timestamp - b[1].timestamp): stable.
RECURSIVE InsertByTimestamp(_, _)
InsertByTimestamp(sorted, e) ==
    IF sorted = <<>> THEN <<e>>
    ELSE IF sorted[Len(sorted)].timestamp <= e.timestamp THEN Append(sorted, e)
    ELSE Append(InsertByTimestamp(SubSeq(sorted, 1, Len(sorted) - 1), e),
                sorted[Len(sorted)])

RECURSIVE SortByTimestampFrom(_, _, _)
SortByTimestampFrom(entries, i, sorted) ==
    IF i > Len(entries) THEN sorted
    ELSE SortByTimestampFrom(entries, i + 1, InsertByTimestamp(sorted, entries[i]))

SortByTimestampMutUnsorted(entries) == entries

SortByTimestamp(entries) == SortByTimestampFrom(entries, 1, <<>>)

\* freedSpace >= Math.max(neededSpace, maxSize * 0.1), in tenths of a byte.
TargetReachedMutNoFloor(freedSpace, neededSpace, maxSize) == freedSpace >= neededSpace

TargetReached(freedSpace, neededSpace, maxSize) ==
    10 * freedSpace >= Max(10 * neededSpace, maxSize)

\* for (const [key, entry] of entries) { if (freed >= target) break; ... }
RECURSIVE EvictLoop(_, _, _, _, _, _, _, _)
EvictLoop(env, sorted, i, freedSpace, entries, fs, neededSpace, maxSize) ==
    IF i > Len(sorted) \/ TargetReached(freedSpace, neededSpace, maxSize)
    THEN [entries |-> entries, files |-> fs, freedSpace |-> freedSpace]
    ELSE EvictLoop(env, sorted, i + 1, freedSpace + sorted[i].size,
                   DeleteKey(entries, sorted[i].key),
                   DeleteRecord(env, fs, sorted[i].file),
                   neededSpace, maxSize)

\* The index (in memory) and the files after the pass.
CleanedUp(r, t) ==
    [index |-> [entries |-> r.entries,
                totalSize |-> SumSizes(r.entries),
                lastCleanup |-> t],
     files |-> r.files,
     freedSpace |-> r.freedSpace]

cleanupCache(env, index, fs, neededSpace, maxSize, t) ==
    CleanedUp(EvictLoop(env, SortByTimestamp(index.entries), 1, 0, index.entries, fs,
                        neededSpace, maxSize), t)

---------------------------------------------------------------------------
(* The exported operations, as functions of the persisted state: each      *)
(* yields the index file and the record files it leaves, and what it       *)
(* returns.                                                                *)

Miss == [hit |-> FALSE]
Hit(v) == [hit |-> TRUE, data |-> v]
Void == [void |-> TRUE]

\* try { return getCacheConfig().enabled } catch { return false }
isCacheEnabled(env) ==
    IF getCacheConfig(env) = Throws THEN FALSE ELSE getCacheConfig(env).enabled

\* A call that throws before it has changed anything.
Thrown(ix, fs) == [indexFile |-> ix, files |-> fs, result |-> Throws, saved |-> FALSE]

\* A call that returns without writing the index file (saved: the call wrote it).
Unsaved(ix, fs, result) ==
    [indexFile |-> ix, files |-> fs, result |-> result, saved |-> FALSE]

\* saveIndex(index) as the last statement of a call: a failing write of the index
\* file throws out of the call and leaves the file as it was.
AfterSaveIndex(env, ix, index, fs, result) ==
    IF env.fault = "writeIndex" THEN Thrown(ix, fs)
    ELSE [indexFile |-> index, files |-> fs, result |-> result, saved |-> TRUE]

\* projectedSize > maxSizeBytes
NeedsCleanupMutNever(index, size) == FALSE

NeedsCleanup(index, size) == index.totalSize + size > MaxSizeBytes

\* ttlMs ?? config.ttl_hours * 60 * 60 * 1000
ActualTtl(ttlMs) == IF ttlMs.given THEN ttlMs.ms ELSE DefaultTtlMs

\* source: string = "unknown"
ActualSource(source) == IF source.given THEN source.label ELSE "unknown"

\* recompute totalSize from the entries (reduce over Object.values), then saveIndex
SavedIndexMutNoRecompute(entries, lastCleanup) ==
    [entries |-> entries, totalSize |-> 0, lastCleanup |-> lastCleanup]

SavedIndex(entries, lastCleanup) ==
    [entries |-> entries, totalSize |-> SumSizes(entries), lastCleanup |-> lastCleanup]

\* A tail that saves the index the eviction pass left when the record write fails.
setCacheStoreMutSavesOnFailure(env, ix, c, cleaned, key, fileName, content, size, actualTtl, source, t) ==
    [indexFile |-> IF cleaned THEN c.index ELSE ix, files |-> c.files,
     result |-> Void, saved |-> cleaned, cleaned |-> cleaned, freedSpace |-> c.freedSpace]

\* The tail of setCache: write the record (a failing write is logged and the call
\* returns there), update the index entry, save.
setCacheStore(env, ix, c, cleaned, key, fileName, content, size, actualTtl, source, t) ==
    IF env.fault = "writeRecord"
    THEN [indexFile |-> ix, files |-> c.files, result |-> Void, saved |-> FALSE,
          cleaned |-> cleaned, freedSpace |-> c.freedSpace]
    ELSE IF env.fault = "writeIndex"
    THEN [indexFile |-> ix, files |-> writeFileSync(c.files, fileName, content),
          result |-> Throws, saved |-> FALSE,
          cleaned |-> cleaned, freedSpace |-> c.freedSpace]
    ELSE
    [indexFile |-> SavedIndex(PutEntry(c.index.entries,
                                       [key |-> key, file |-> fileName, timestamp |-> t,
                                        ttl |-> actualTtl, size |-> size,
                                        source |-> source]),
                              c.index.lastCleanup),
     files |-> writeFileSync(c.files, fileName, content),
     result |-> Void, saved |-> TRUE, cleaned |-> cleaned, freedSpace |-> c.freedSpace]

\* The middle of setCache: the eviction pass when the projected size is over budget.
setCachePreparedMutRejectsOversized(env, ix, index0, fs, key, fileName, content, size, actualTtl, source, t) ==
    IF size > MaxSizeBytes
    THEN [indexFile |-> ix, files |-> fs, result |-> Void, saved |-> FALSE,
          cleaned |-> FALSE, freedSpace |-> 0]
    ELSE IF NeedsCleanup(index0, size)
    THEN setCacheStore(env, ix, cleanupCache(env, index0, fs, size, MaxSizeBytes, t), TRUE,
                       key, fileName, content, size, actualTtl, source, t)
    ELSE setCacheStore(env, ix, [index |-> index0, files |-> fs, freedSpace |-> 0], FALSE,
                       key, fileName, content, size, actualTtl, source, t)

setCachePrepared(env, ix, index0, fs, key, fileName, content, size, actualTtl, source, t) ==
    IF NeedsCleanup(index0, size)
    THEN setCacheStore(env, ix, cleanupCache(env, index0, fs, size, MaxSizeBytes, t), TRUE,
                       key, fileName, content, size, actualTtl, source, t)
    ELSE setCacheStore(env, ix, [index |-> index0, files |-> fs, freedSpace |-> 0], FALSE,
                       key, fileName, content, size, actualTtl, source, t)

setCacheEntry(env, ix, index0, fs, key, content, actualTtl, source, t) ==
    setCachePrepared(env, ix, index0, fs, key, FileName(source, key), content,
                     ByteLength(content), actualTtl, source, t)

\* ensureSourceDir(source) is not in a try: a failing mkdirSync throws.
setCache(ix, fs, env, key, data, actualTtl, source, t) ==
    IF ~isCacheEnabled(env)
    THEN [indexFile |-> ix, files |-> fs, result |-> Void, saved |-> FALSE,
          cleaned |-> FALSE, freedSpace |-> 0]
    ELSE IF env.fault = "mkdir"
    THEN [indexFile |-> ix, files |-> fs, result |-> Throws, saved |-> FALSE,
          cleaned |-> FALSE, freedSpace |-> 0]
    ELSE setCacheEntry(env, ix, loadIndex(ix, t), fs, key,
                       EntryContent(data, t, actualTtl, source), actualTtl, source, t)

\* loadIndex() asks getCacheDir() for the directory, which reads the configuration.
removeCachedMutAlwaysSaves(ix, fs, env, key, t) ==
    LET index == loadIndex(ix, t)
    IN  [indexFile |-> SavedIndex(DeleteKey(index.entries, key), index.lastCleanup),
         files |-> IF HasKey(index.entries, key)
                   THEN DeleteRecord(env, fs, EntryOf(index.entries, key).file)
                   ELSE fs,
         result |-> Void, saved |-> TRUE]

removeCached(ix, fs, env, key, t) ==
    LET index == loadIndex(ix, t)
    IN  IF getCacheConfig(env) = Throws THEN Thrown(ix, fs)
        ELSE IF ~HasKey(index.entries, key)
        THEN Unsaved(ix, fs, Void)
        ELSE AfterSaveIndex(env, ix,
                            SavedIndex(DeleteKey(index.entries, key), index.lastCleanup),
                            DeleteRecord(env, fs, EntryOf(index.entries, key).file),
                            Void)

\* The file-missing branch: delete index.entries[key]; index.totalSize -= entry.size
SelfHealMutKeepsTotal(index, key) ==
    [index EXCEPT !.entries = DeleteKey(index.entries, key)]

SelfHeal(index, key) ==
    [index EXCEPT !.entries = DeleteKey(index.entries, key),
                  !.totalSize = index.totalSize - EntryOf(index.entries, key).size]

\* removeCached(key); return null
ReturnNull(r) == IF r.result = Throws THEN r ELSE [r EXCEPT !.result = Miss]

\* try { return JSON.parse(readFileSync(filePath)).data } catch { return null }
ReadRecord(content) == IF JsonParses(content) THEN Hit(ContentData(content)) ELSE Miss

getCached(ix, fs, env, key, t) ==
    IF ~isCacheEnabled(env)
    THEN Unsaved(ix, fs, Miss)
    ELSE
    LET index == loadIndex(ix, t)
    IN  IF ~HasKey(index.entries, key)
        THEN Unsaved(ix, fs, Miss)
        ELSE LET entry == EntryOf(index.entries, key)
             IN  IF IsExpired(entry, t)
                 THEN ReturnNull(removeCached(ix, fs, env, key, t))
                 ELSE IF ~existsSync(fs, entry.file)
                 THEN AfterSaveIndex(env, ix, SelfHeal(index, key), fs, Miss)
                 ELSE Unsaved(ix, fs, ReadRecord(fs[entry.file]))

\* !source || entry.source === source
ClearMatches(source, entry) ==
    IF ~source.given THEN TRUE
    ELSE source.label = "" \/ entry.source = source.label

RECURSIVE DeleteRecordsOf(_, _, _)
DeleteRecordsOf(env, fs, entries) ==
    IF entries = <<>> THEN fs
    ELSE DeleteRecordsOf(env, DeleteRecord(env, fs, entries[1].file), Tail(entries))

clearCache(ix, fs, env, source, t) ==
    LET index   == loadIndex(ix, t)
        removed == SelectSeq(index.entries, LAMBDA e : ClearMatches(source, e))
    IN  IF getCacheConfig(env) = Throws THEN Thrown(ix, fs)
        ELSE AfterSaveIndex(env, ix,
                            SavedIndex(SelectSeq(index.entries,
                                                 LAMBDA e : ~ClearMatches(source, e)),
                                       index.lastCleanup),
                            DeleteRecordsOf(env, fs, removed),
                            [cleared |-> Len(removed)])

invalidateExpired(ix, fs, env, t) ==
    LET index   == loadIndex(ix, t)
        removed == SelectSeq(index.entries, LAMBDA e : IsExpired(e, t))
    IN  IF getCacheConfig(env) = Throws THEN Thrown(ix, fs)
        ELSE IF Len(removed) > 0
        THEN AfterSaveIndex(env, ix,
                            SavedIndex(SelectSeq(index.entries,
                                                 LAMBDA e : ~IsExpired(e, t)),
                                       index.lastCleanup),
                            DeleteRecordsOf(env, fs, removed),
                            [invalidated |-> Len(removed)])
        ELSE Unsaved(ix, fs, [invalidated |-> 0])

\* 1024 * 1024
BytesPerMb == 1048576

\* Math.round((bytes / (1024 * 1024)) * 100) / 100, in hundredths of a MB.
RoundedMb(bytes) == (200 * bytes + BytesPerMb) \div (2 * BytesPerMb)

\* const config = getCacheConfig() is the first statement, outside any try.
getCacheStatsMutSkipsExpired(ix, env, t) ==
    LET index   == loadIndex(ix, t)
        live    == SelectSeq(index.entries, LAMBDA e : ~IsExpired(e, t))
        sources == {live[i].source : i \in 1..Len(live)}
        of(s)   == SelectSeq(live, LAMBDA e : e.source = s)
    IN  IF getCacheConfig(env) = Throws THEN Throws
        ELSE [totalEntries |-> Len(live),
              totalSizeMb  |-> RoundedMb(index.totalSize),
              bySource     |-> [s \in sources |->
                                  [count |-> Len(of(s)),
                                   sizeMb |-> RoundedMb(SumSizes(of(s)))]],
              cacheEnabled |-> getCacheConfig(env).enabled]

getCacheStats(ix, env, t) ==
    LET index   == loadIndex(ix, t)
        sources == {index.entries[i].source : i \in 1..Len(index.entries)}
        of(s)   == SelectSeq(index.entries, LAMBDA e : e.source = s)
    IN  IF getCacheConfig(env) = Throws THEN Throws
        ELSE [totalEntries |-> Len(index.entries),
              totalSizeMb  |-> RoundedMb(index.totalSize),
              bySource     |-> [s \in sources |->
                                  [count |-> Len(of(s)),
                                   sizeMb |-> RoundedMb(SumSizes(of(s)))]],
              cacheEnabled |-> getCacheConfig(env).enabled]

---------------------------------------------------------------------------
(* generateCacheKey.  An argument mapping is a sequence of name/value      *)
(* pairs with distinct names, in insertion order; a name is a sequence of  *)
(* letters.                                                                *)

CodeUnit(c) == CASE c = "a" -> 97 [] c = "b" -> 98 [] c = "c" -> 99

\* x < y as Array.prototype.sort compares strings without a comparator.
RECURSIVE StringLess(_, _)
StringLess(x, y) ==
    IF y = <<>> THEN FALSE
    ELSE IF x = <<>> THEN TRUE
    ELSE IF CodeUnit(x[1]) # CodeUnit(y[1]) THEN CodeUnit(x[1]) < CodeUnit(y[1])
    ELSE StringLess(Tail(x), Tail(y))

RECURSIVE InsertName(_, _)
InsertName(sorted, n) ==
    IF sorted = <<>> THEN <<n>>
    ELSE IF StringLess(n, sorted[Len(sorted)])
    THEN Append(InsertName(SubSeq(sorted, 1, Len(sorted) - 1), n), sorted[Len(sorted)])
    ELSE Append(sorted, n)

RECURSIVE SortNamesFrom(_, _, _)
SortNamesFrom(names, i, sorted) ==
    IF i > Len(names) THEN sorted
    ELSE SortNamesFrom(names, i + 1, InsertName(sorted, names[i]))

\* Object.keys(args).sort()
SortedKeysMutUnsorted(args) == [i \in 1..Len(args) |-> args[i].name]

SortedKeys(args) == SortNamesFrom([i \in 1..Len(args) |-> args[i].name], 1, <<>>)

ArgValue(args, name) ==
    args[CHOOSE i \in 1..Len(args) : args[i].name = name].value

\* JSON.stringify of the object whose properties are `names` in this order:
\* a property whose value is undefined is left out.
RECURSIVE JsonProperties(_, _, _, _)
JsonProperties(args, names, i, first) ==
    IF i > Len(names) THEN <<>>
    ELSE LET v == ArgValue(args, names[i])
         IN  IF v = Undefined THEN JsonProperties(args, names, i + 1, first)
             ELSE (IF first THEN <<>> ELSE <<",">>)
                  \o <<"\"">> \o names[i] \o <<"\"", ":">> \o JsonStringify(v)
                  \o JsonProperties(args, names, i + 1, FALSE)

\* `${tool}:${JSON.stringify(sortedArgs)}`
generateCacheKey(tool, args) ==
    tool \o <<":", "{">> \o JsonProperties(args, SortedKeys(args), 1, TRUE) \o <<"}">>

---------------------------------------------------------------------------
(* The state machine: one process, one call at a time, storage that does   *)
(* not fail.                                                               *)

\* ttlMs?: given or left out.
TtlInputs == {[given |-> FALSE]} \cup {[given |-> TRUE, ms |-> t] : t \in TtlValues}

\* setCache's source: given, or left out ("unknown").
SourceInputs == {[given |-> FALSE], [given |-> TRUE, label |-> "eurlex"]}

\* clearCache(source?): left out, or a string (the empty one, a label).
ClearInputs ==
    {[given |-> FALSE]}
    \cup {[given |-> TRUE, label |-> s] : s \in {"", "eurlex", "unknown"}}

NoCall == [op |-> "none"]
NoWrite == [none |-> TRUE]
NoKeys == [done |-> FALSE]
NoPass == [done |-> FALSE]
Procs == {1, 2}
Idle == [pc |-> "idle", calls |-> 0]

\* What the calls of the one-process machine meet: the configuration of the
\* process, storage that does not fail.
Env == [enabled |-> cacheEnabled, configFails |-> configFails, fault |-> "none"]

PersistedEntries == loadIndex(indexFile, now).entries

\* written, kept for the keys the index still holds.
Tracked(w, ix) ==
    [k \in Keys |-> IF HasKey(loadIndex(ix, 0).entries, k) THEN w[k] ELSE NoWrite]

Init ==
    /\ indexFile = NoIndex
    /\ files = <<>>
    /\ now = 0
    /\ cacheEnabled = TRUE
    /\ last = NoCall
    /\ written = [k \in Keys |-> NoWrite]
    /\ kg = NoKeys
    /\ configFails = FALSE
    /\ ev = NoPass
    /\ procs = [p \in Procs |-> Idle]

Tick ==
    /\ now < MaxTime
    /\ now' = now + 1
    /\ last' = NoCall
    /\ UNCHANGED <<indexFile, files, cacheEnabled, written, kg, configFails, ev, procs>>

\* setCache reaches the update of the index entry.
Stores(env) ==
    isCacheEnabled(env) /\ env.fault \notin {"mkdir", "writeRecord", "writeIndex"}

SetCacheIn(env, key, data, ttlMs, source) ==
    \E ttl \in {ActualTtl(ttlMs)}, src \in {ActualSource(source)} :
    \E r \in {setCache(indexFile, files, env, key, data, ttl, src, now)} :
        /\ indexFile' = r.indexFile
        /\ files' = r.files
        /\ last' = [op |-> "set", key |-> key, data |-> data, ttl |-> ttl,
                    source |-> src, result |-> r.result,
                    hadKey |-> HasKey(PersistedEntries, key),
                    cleaned |-> r.cleaned, freedSpace |-> r.freedSpace,
                    fault |-> env.fault]
        /\ written' = Tracked(IF Stores(env)
                              THEN [k \in Keys |->
                                      IF k = key
                                      THEN [data |-> data, timestamp |-> now, ttl |-> ttl]
                                      ELSE written[k]]
                              ELSE written,
                              r.indexFile)
        /\ UNCHANGED <<now, cacheEnabled, kg, configFails, ev, procs>>

SetCache(key, data, ttlMs, source) == SetCacheIn(Env, key, data, ttlMs, source)

GetCached(key) ==
    \E r \in {getCached(indexFile, files, Env, key, now)} :
        /\ indexFile' = r.indexFile
        /\ files' = r.files
        /\ last' = [op |-> "get", key |-> key, result |-> r.result,
                    hadKey |-> HasKey(PersistedEntries, key),
                    dangling |-> /\ isCacheEnabled(Env)
                                 /\ HasKey(PersistedEntries, key)
                                 /\ ~IsExpired(EntryOf(PersistedEntries, key), now)
                                 /\ ~existsSync(files, EntryOf(PersistedEntries, key).file)]
        /\ written' = Tracked(written, r.indexFile)
        /\ UNCHANGED <<now, cacheEnabled, kg, configFails, ev, procs>>

RemoveCachedIn(env, key) ==
    \E r \in {removeCached(indexFile, files, env, key, now)} :
        /\ indexFile' = r.indexFile
        /\ files' = r.files
        /\ last' = [op |-> "remove", key |-> key, result |-> r.result,
                    hadKey |-> HasKey(PersistedEntries, key), fault |-> env.fault]
        /\ written' = Tracked(written, r.indexFile)
        /\ UNCHANGED <<now, cacheEnabled, kg, configFails, ev, procs>>

RemoveCached(key) == RemoveCachedIn(Env, key)

ClearCacheIn(env, source) ==
    \E r \in {clearCache(indexFile, files, env, source, now)} :
        /\ indexFile' = r.indexFile
        /\ files' = r.files
        /\ last' = [op |-> "clear", source |-> source, result |-> r.result,
                    before |-> Len(PersistedEntries), fault |-> env.fault]
        /\ written' = Tracked(written, r.indexFile)
        /\ UNCHANGED <<now, cacheEnabled, kg, configFails, ev, procs>>

ClearCache(source) == ClearCacheIn(Env, source)

InvalidateExpired ==
    \E r \in {invalidateExpired(indexFile, files, Env, now)} :
        /\ indexFile' = r.indexFile
        /\ files' = r.files
        /\ last' = [op |-> "invalidateExpired", result |-> r.result,
                    before |-> Len(PersistedEntries)]
        /\ written' = Tracked(written, r.indexFile)
        /\ UNCHANGED <<now, cacheEnabled, kg, configFails, ev, procs>>

\* A statistics call that also sweeps the expired entries.
GetCacheStatsMutSweeps ==
    \E r \in {invalidateExpired(indexFile, files, Env, now)} :
        /\ indexFile' = r.indexFile
        /\ files' = r.files
        /\ last' = [op |-> "stats",
                    result |-> getCacheStats(r.indexFile, Env, now)]
        /\ written' = Tracked(written, r.indexFile)
        /\ UNCHANGED <<now, cacheEnabled, kg, configFails, ev, procs>>

GetCacheStats ==
    /\ last' = [op |-> "stats",
                result |-> getCacheStats(indexFile, Env, now)]
    /\ UNCHANGED <<indexFile, files, now, cacheEnabled, written, kg, configFails, ev, procs>>

Next ==
    \/ Tick
    \/ \E key \in Keys, data \in DataValues, ttlMs \in TtlInputs, source \in SourceInputs :
          SetCache(key, data, ttlMs, source)
    \/ \E key \in Keys : GetCached(key)
    \/ \E key \in Keys : RemoveCached(key)
    \/ \E source \in ClearInputs : ClearCache(source)
    \/ InvalidateExpired
    \/ GetCacheStats

Spec == Init /\ [][Next]_vars

---------------------------------------------------------------------------
(* The same machine with the record file of a live index entry deleted     *)
(* behind the cache's back.                                                *)

OutOfBandDelete(path) ==
    /\ \E i \in 1..Len(PersistedEntries) :
          /\ PersistedEntries[i].file = path
          /\ ~IsExpired(PersistedEntries[i], now)
    /\ files' = unlinkSync(files, path)
    /\ last' = [op |-> "external"]
    /\ UNCHANGED <<indexFile, now, cacheEnabled, written, kg, configFails, ev, procs>>

NextOutOfBand ==
    \/ Next
    \/ \E path \in DOMAIN files : OutOfBandDelete(path)

SpecOutOfBand == Init /\ [][NextOutOfBand]_vars

---------------------------------------------------------------------------
(* The calls of the machine with ttlMs and source left out: the default    *)
(* TTL, the one source "unknown".                                          *)

Omitted == [given |-> FALSE]

NextOmitted ==
    \/ Tick
    \/ \E key \in Keys, data \in DataValues : SetCache(key, data, Omitted, Omitted)
    \/ \E key \in Keys : GetCached(key)
    \/ \E key \in Keys : RemoveCached(key)
    \/ ClearCache(Omitted)
    \/ InvalidateExpired
    \/ GetCacheStats

---------------------------------------------------------------------------
(* The same machine with the record file of a live index entry damaged     *)
(* behind the cache's back: the file is cut short and no longer parses.    *)

Truncated(content) == [data |-> SubSeq(content.data, 1, Len(content.data) - 1)]

OutOfBandCorrupt(path) ==
    /\ \E i \in 1..Len(PersistedEntries) :
          /\ PersistedEntries[i].file = path
          /\ ~IsExpired(PersistedEntries[i], now)
    /\ JsonParses(files[path])
    /\ files' = [files EXCEPT ![path] = Truncated(files[path])]
    /\ last' = [op |-> "external"]
    /\ UNCHANGED <<indexFile, now, cacheEnabled, written, kg, configFails, ev, procs>>

NextCorrupt ==
    \/ NextOmitted
    \/ \E path \in DOMAIN files : OutOfBandCorrupt(path)

SpecCorrupt == Init /\ [][NextCorrupt]_vars

---------------------------------------------------------------------------
(* The same machine across process restarts: loadConfig() reads the         *)
(* configuration file once per process, so a new process may find the       *)
(* cache enabled, disabled, or no readable configuration, over the same     *)
(* cache directory.                                                         *)

Configs ==
    {[enabled |-> TRUE, fails |-> FALSE],
     [enabled |-> FALSE, fails |-> FALSE],
     [enabled |-> FALSE, fails |-> TRUE]}

LoadConfig(c) ==
    /\ <<c.enabled, c.fails>> # <<cacheEnabled, configFails>>
    /\ cacheEnabled' = c.enabled
    /\ configFails' = c.fails
    /\ last' = [op |-> "restart"]
    /\ UNCHANGED <<indexFile, files, now, written, kg, ev, procs>>

NextConfig ==
    \/ NextOmitted
    \/ \E c \in Configs : LoadConfig(c)

SpecConfig == Init /\ [][NextConfig]_vars

---------------------------------------------------------------------------
(* The same machine on storage that can fail: during a setCache,           *)
(* removeCached or clearCache call one kind of storage step fails where    *)
(* the call attempts it.  Directories are not part of the state: creating  *)
(* the source directory can fail only when no record is stored under it.   *)

SetCacheFault(key, data, ttlMs, source, fault) ==
    /\ isCacheEnabled(Env)
    /\ fault = "mkdir" => \A p \in DOMAIN files : p[1] # ActualSource(source)
    /\ fault = "unlink" =>
          /\ NeedsCleanup(loadIndex(indexFile, now), Len(JsonStringify(data)))
          /\ \E p \in DOMAIN files : TRUE
    /\ SetCacheIn([Env EXCEPT !.fault = fault], key, data, ttlMs, source)

RemoveCachedFault(key, fault) ==
    /\ fault \in {"unlink", "writeIndex"}
    /\ HasKey(PersistedEntries, key)
    /\ fault = "unlink" => existsSync(files, EntryOf(PersistedEntries, key).file)
    /\ RemoveCachedIn([Env EXCEPT !.fault = fault], key)

ClearCacheFault(source, fault) ==
    /\ fault \in {"unlink", "writeIndex"}
    /\ fault = "unlink" =>
          \E i \in 1..Len(PersistedEntries) :
              /\ ClearMatches(source, PersistedEntries[i])
              /\ existsSync(files, PersistedEntries[i].file)
    /\ ClearCacheIn([Env EXCEPT !.fault = fault], source)

NextFaults ==
    \/ NextOmitted
    \/ \E key \in Keys, data \in DataValues, fault \in Faults :
          SetCacheFault(key, data, Omitted, Omitted, fault)
    \/ \E key \in Keys, fault \in Faults : RemoveCachedFault(key, fault)
    \/ \E fault \in Faults : ClearCacheFault(Omitted, fault)

SpecFaults == Init /\ [][NextFaults]_vars

---------------------------------------------------------------------------
(* Several processes over one cache directory, no lock.  A call reads the  *)
(* index file when it starts (loadIndex) and does the rest later: in       *)
(* between, the other process may load and save.  A call's file operations *)
(* and its saveIndex are one step.  getCached on an expired entry calls    *)
(* removeCached, which reads the index file again.  Calls leave ttlMs and  *)
(* source out; written is not maintained.                                  *)

SharedCalls ==
    {[op |-> "set", key |-> k, data |-> d] : k \in Keys, d \in DataValues}
    \cup {[op |-> o, key |-> k] : o \in {"get", "remove"}, k \in Keys}
    \cup {[op |-> "clear"], [op |-> "invalidateExpired"]}

CallsBegun == procs[1].calls + procs[2].calls

\* const index = loadIndex()
BeginCall(p, c) ==
    /\ procs[p].pc = "idle"
    /\ CallsBegun < MaxCalls
    /\ procs' = [procs EXCEPT ![p] = [pc |-> "loaded", calls |-> @.calls + 1,
                                      call |-> c, inner |-> FALSE, index |-> indexFile]]
    /\ last' = NoCall
    /\ UNCHANGED <<indexFile, files, now, cacheEnabled, written, kg, configFails, ev>>

\* The ttlMs argument of a setCache call, when the call gives one.
CallTtl(c) == IF "ttl" \in DOMAIN c THEN c.ttl ELSE Omitted

\* The rest of a call on the index it loaded and the files as they are now.
CallResult(c, ix, fs, t) ==
    CASE c.op = "set" ->
            setCache(ix, fs, Env, c.key, c.data, ActualTtl(CallTtl(c)), ActualSource(Omitted), t)
      [] c.op = "get" -> getCached(ix, fs, Env, c.key, t)
      [] c.op = "remove" -> removeCached(ix, fs, Env, c.key, t)
      [] c.op = "clear" -> clearCache(ix, fs, Env, Omitted, t)
      [] c.op = "invalidateExpired" -> invalidateExpired(ix, fs, Env, t)

\* getCached found the entry it loaded expired: it goes on into removeCached.
ExpiredOnRead(c, ix, t) ==
    /\ c.op = "get"
    /\ HasKey(loadIndex(ix, t).entries, c.key)
    /\ IsExpired(EntryOf(loadIndex(ix, t).entries, c.key), t)

\* removeCached(key) inside getCached: const index = loadIndex()
ReloadForRemove(p) ==
    /\ procs[p].pc = "loaded"
    /\ ExpiredOnRead(procs[p].call, procs[p].index, now)
    /\ procs' = [procs EXCEPT ![p] = [pc |-> "loaded", calls |-> @.calls,
                                      call |-> [op |-> "remove", key |-> @.call.key],
                                      inner |-> TRUE, index |-> indexFile]]
    /\ last' = NoCall
    /\ UNCHANGED <<indexFile, files, now, cacheEnabled, written, kg, configFails, ev>>

FinishCall(p) ==
    /\ procs[p].pc = "loaded"
    /\ ~ExpiredOnRead(procs[p].call, procs[p].index, now)
    /\ \E r \in {CallResult(procs[p].call, procs[p].index, files, now)} :
          /\ indexFile' = IF r.saved THEN r.indexFile ELSE indexFile
          /\ files' = r.files
          /\ last' = [op |-> IF procs[p].inner THEN "get" ELSE procs[p].call.op,
                      shared |-> TRUE, inner |-> procs[p].inner, saved |-> r.saved,
                      stale |-> procs[p].index # indexFile,
                      cleaned |-> procs[p].call.op = "set" /\ r.cleaned]
    /\ procs' = [procs EXCEPT ![p] = [pc |-> "idle", calls |-> @.calls]]
    /\ UNCHANGED <<now, cacheEnabled, written, kg, configFails, ev>>

NextShared ==
    \/ Tick
    \/ \E p \in Procs, c \in SharedCalls : BeginCall(p, c)
    \/ \E p \in Procs : ReloadForRemove(p)
    \/ \E p \in Procs : FinishCall(p)

SpecShared == Init /\ [][NextShared]_vars

---------------------------------------------------------------------------
(* generateCacheKey on its own: two calls with the same tool name.         *)

ToolNames == {<<"o", "p">>}
ArgNames == {<<"a">>, <<"a", "b">>, <<"b">>}
ArgValues == {Num(1), Str(<<"1">>), Undefined}

ArgNamesOf(args) == {args[i].name : i \in 1..Len(args)}

ArgMappings ==
    LET raw == UNION {[1..n -> ArgNames \X ArgValues] : n \in 0..MaxArgs}
    IN  {[i \in 1..Len(m) |-> [name |-> m[i][1], value |-> m[i][2]]] :
            m \in {x \in raw : \A i, j \in 1..Len(x) : i # j => x[i][1] # x[j][1]}}

InitKeys ==
    /\ indexFile = NoIndex
    /\ files = <<>>
    /\ now = 0
    /\ cacheEnabled = TRUE
    /\ last = NoCall
    /\ written = [k \in Keys |-> NoWrite]
    /\ configFails = FALSE
    /\ ev = NoPass
    /\ procs = [p \in Procs |-> Idle]
    /\ \E tool \in ToolNames, a \in ArgMappings, b \in ArgMappings :
          kg = [done |-> FALSE, tool |-> tool, argsA |-> a, argsB |-> b]

GenerateKeys ==
    /\ ~kg.done
    /\ kg' = [done |-> TRUE, tool |-> kg.tool, argsA |-> kg.argsA, argsB |-> kg.argsB,
              keyA |-> generateCacheKey(kg.tool, kg.argsA),
              keyB |-> generateCacheKey(kg.tool, kg.argsB)]
    /\ UNCHANGED <<indexFile, files, now, cacheEnabled, last, written, configFails, ev, procs>>

SpecKeys == InitKeys /\ [][GenerateKeys]_vars

---------------------------------------------------------------------------
(* cleanupCache on its own: one eviction pass over an index of up to three *)
(* entries of the source "unknown", all with their records on disk, called *)
(* as setCache calls it: the projected size is over the budget.            *)

EvictKeys == {"k1", "k2", "k3"}

\* Entry sizes: the two payload sizes and one entry as large as ten budgets.
EntrySizes == {1, 3, 10 * MaxSizeBytes}

\* The incoming entry's size.
NeededSpaces == {1, 3}

\* The budgets: the configured one and one ten times as large.
MaxSizes == {MaxSizeBytes, 10 * MaxSizeBytes}

\* The keys of the index in insertion order: a prefix of k1, k2, k3.
KeyOrders == {<<>>, <<"k1">>, <<"k1", "k2">>, <<"k1", "k2", "k3">>}

\* Per entry: createdAt, ttl, size.
EntryFields(ks) == [1..Len(ks) -> (0..MaxTime) \X {0, DefaultTtlMs} \X EntrySizes]

EntriesOver(ks, m) ==
    [i \in 1..Len(ks) |->
        [key |-> ks[i], file |-> FileName("unknown", ks[i]), timestamp |-> m[i][1],
         ttl |-> m[i][2], size |-> m[i][3], source |-> "unknown"]]

PassIndex(es) == [entries |-> es, totalSize |-> SumSizes(es), lastCleanup |-> 0]

PassFiles(es) == [p \in {es[i].file : i \in 1..Len(es)} |-> [data |-> <<"7">>]]

InitCleanup ==
    /\ indexFile = NoIndex
    /\ files = <<>>
    /\ now = MaxTime
    /\ cacheEnabled = TRUE
    /\ last = NoCall
    /\ written = [k \in Keys |-> NoWrite]
    /\ kg = NoKeys
    /\ configFails = FALSE
    /\ procs = [p \in Procs |-> Idle]
    /\ \E ks \in KeyOrders, neededSpace \in NeededSpaces, maxSize \in MaxSizes :
       \E m \in EntryFields(ks) :
       \E es \in {EntriesOver(ks, m)} :
          /\ SumSizes(es) + neededSpace > maxSize
          /\ ev = [done |-> FALSE, index |-> PassIndex(es), files |-> PassFiles(es),
                   neededSpace |-> neededSpace, maxSize |-> maxSize]

CleanupCache ==
    /\ ~ev.done
    /\ ev' = [done |-> TRUE, index |-> ev.index, files |-> ev.files,
              neededSpace |-> ev.neededSpace, maxSize |-> ev.maxSize,
              after |-> cleanupCache(Env, ev.index, ev.files, ev.neededSpace,
                                     ev.maxSize, now)]
    /\ UNCHANGED <<indexFile, files, now, cacheEnabled, last, written, kg, configFails,
                   procs>>

SpecCleanup == InitCleanup /\ [][CleanupCache]_vars

---------------------------------------------------------------------------
(* Properties.  What a call would return in the current state:             *)

GetNow(key) == getCached(indexFile, files, Env, key, now).result

\* ... and in the state a step leads to.
GetNext(key) == getCached(indexFile', files', Env', key, now').result

\* The bytes setCache accounts for a payload.
SizeOfData(data) == Len(JsonStringify(data))

\* C1: with the cache enabled, right after setCache(k, v, ttl, s) with ttl >= 0
\* (the clock has not moved, nothing ran in between) getCached(k) returns v,
\* whatever the cache held before and whether or not the set ran an eviction pass.
C1_RoundTrip ==
    (last.op = "set" /\ cacheEnabled /\ last.ttl >= 0)
        => GetNow(last.key) = Hit(last.data)

\* A set of a key that was already stored, which ran an eviction pass that freed
\* space, and the value is read back.
C1_Witness ==
    /\ last.op = "set" /\ cacheEnabled /\ last.ttl >= 0
    /\ last.hadKey /\ last.cleaned /\ last.freedSpace > 0
    /\ last.data = Str(<<"7">>)
    /\ GetNow(last.key) = Hit(last.data)

\* C2: an entry written by setCache(k, v, ttl, s) at t0 that is still the index's
\* entry for k reads back as v while now - t0 <= ttl (the boundary included) and
\* as a miss once now - t0 > ttl.
C2_TtlOnRead ==
    \A k \in Keys :
        HasKey(PersistedEntries, k) =>
            /\ written[k] # NoWrite
            /\ (now - written[k].timestamp <= written[k].ttl
                    => GetNow(k) = Hit(written[k].data))
            /\ (now - written[k].timestamp > written[k].ttl => GetNow(k) = Miss)

\* One entry exactly at the end of its (positive) TTL and read as a hit, another
\* past its TTL and read as a miss.
C2_Witness ==
    \E k1, k2 \in Keys :
        /\ HasKey(PersistedEntries, k1) /\ HasKey(PersistedEntries, k2)
        /\ written[k1].ttl > 0
        /\ now - written[k1].timestamp = written[k1].ttl
        /\ GetNow(k1) = Hit(written[k1].data)
        /\ now - written[k2].timestamp > written[k2].ttl
        /\ GetNow(k2) = Miss

\* C3: after setCache(k, v2, ...) on a key the index already held, getCached(k)
\* returns v2, the index has exactly one entry for k (stats count it once), and
\* totalSize is the other entries' sizes plus the size of this write only.
C3_Overwrite ==
    (last.op = "set" /\ last.hadKey /\ cacheEnabled) =>
        /\ GetNow(last.key) = Hit(last.data)
        /\ Cardinality({i \in 1..Len(PersistedEntries) :
                            PersistedEntries[i].key = last.key}) = 1
        /\ getCacheStats(indexFile, Env, now).totalEntries
               = Cardinality(IndexKeys(PersistedEntries))
        /\ indexFile.totalSize
               = SumSizes(SelectSeq(PersistedEntries, LAMBDA e : e.key # last.key))
                 + SizeOfData(last.data)

\* An overwrite under another source label, without eviction; the first write's
\* record is still on disk.
C3_Witness ==
    /\ last.op = "set" /\ last.hadKey /\ ~last.cleaned
    /\ GetNow(last.key) = Hit(last.data)
    /\ \E p \in DOMAIN files : p[2] = hashKey(last.key) /\ p[1] # last.source

\* C4 as stated: after every setCache call the index's totalSize is <= maxSizeBytes,
\* for any entry sizes.
C4_SizeBudgetAnySize ==
    (last.op = "set" /\ cacheEnabled) => indexFile.totalSize <= MaxSizeBytes

\* C4, amended: after every setCache call that stores an entry whose own size is
\* <= maxSizeBytes, the index's totalSize is <= maxSizeBytes.
C4_SizeBudget ==
    (last.op = "set" /\ cacheEnabled /\ SizeOfData(last.data) <= MaxSizeBytes)
        => indexFile.totalSize <= MaxSizeBytes

\* A set that had to evict and leaves the budget exactly used.
C4_Witness ==
    /\ last.op = "set" /\ cacheEnabled /\ SizeOfData(last.data) <= MaxSizeBytes
    /\ last.cleaned /\ last.freedSpace > 0
    /\ indexFile.totalSize = MaxSizeBytes

\* The step just taken is a call of `op` (Tick clears last, every call sets it).
Called(op) == last'.op = op

\* C5 as stated: for every source label s that is given, clearCache(s) removes
\* from the index exactly the entries whose source equals s and deletes their
\* records, returns cleared = their number, and leaves every other entry in the
\* index with its record intact and as retrievable as before.
C5_ScopedClear ==
    [][(Called("clear") /\ last'.source.given) =>
        LET s    == last'.source.label
            pre  == PersistedEntries
            post == PersistedEntries'
        IN  /\ post = SelectSeq(pre, LAMBDA e : e.source # s)
            /\ last'.result.cleared = Len(SelectSeq(pre, LAMBDA e : e.source = s))
            /\ \A i \in 1..Len(pre) :
                  IF pre[i].source = s
                  THEN pre[i].file \notin DOMAIN files'
                  ELSE /\ pre[i].file \in DOMAIN files'
                       /\ files'[pre[i].file] = files[pre[i].file]
                       /\ GetNext(pre[i].key) = GetNow(pre[i].key)
      ]_vars

\* C6: invalidateExpired() at time now removes from the index exactly the entries
\* with now - createdAt > ttl and deletes their records, returns their number, and
\* leaves every other entry in the index with its record, as retrievable as before.
C6_Sweep ==
    [][Called("invalidateExpired") =>
        LET pre  == PersistedEntries
            post == PersistedEntries'
        IN  /\ post = SelectSeq(pre, LAMBDA e : ~(now - e.timestamp > e.ttl))
            /\ last'.result.invalidated
                  = Len(SelectSeq(pre, LAMBDA e : now - e.timestamp > e.ttl))
            /\ \A i \in 1..Len(pre) :
                  IF now - pre[i].timestamp > pre[i].ttl
                  THEN pre[i].file \notin DOMAIN files'
                  ELSE /\ pre[i].file \in DOMAIN files'
                       /\ files'[pre[i].file] = files[pre[i].file]
                       /\ GetNext(pre[i].key) = GetNow(pre[i].key)
                       /\ GetNext(pre[i].key) # Miss
      ]_vars

\* A sweep that removed one entry and kept a live one, which still reads as a hit.
C6_Witness ==
    /\ last.op = "invalidateExpired"
    /\ last.result.invalidated = 1 /\ last.before = 2
    /\ \E k \in Keys : HasKey(PersistedEntries, k) /\ GetNow(k) = Hit(written[k].data)

\* C7: removeCached(k) for a key that is not in the index returns normally and
\* leaves the persisted index and every record unchanged (getCacheStats() is the
\* same before and after); so a second removeCached(k) right after a first one
\* changes nothing.
C7_IdempotentRemoval ==
    [][Called("remove") =>
        /\ last'.result = Void
        /\ ~HasKey(PersistedEntries, last'.key) =>
              /\ indexFile' = indexFile
              /\ files' = files
              /\ getCacheStats(indexFile, Env, now)'
                    = getCacheStats(indexFile, Env, now)
        /\ ~HasKey(PersistedEntries', last'.key)
        /\ removeCached(indexFile', files', Env', last'.key, now').indexFile = indexFile'
        /\ removeCached(indexFile', files', Env', last'.key, now').files = files'
      ]_vars

\* A removal of an absent key from a cache that holds another entry.
C7_Witness ==
    /\ last.op = "remove" /\ ~last.hadKey
    /\ Len(PersistedEntries) > 0

\* C8: when the record file of a live index entry k is gone, getCached(k) returns
\* Miss, removes k (and only k) from the persisted index, and leaves totalSize
\* equal to the sum of the remaining entries' sizes; stats count one entry less.
C8_DanglingSelfHeal ==
    [][(/\ Called("get")
        /\ cacheEnabled
        /\ HasKey(PersistedEntries, last'.key)
        /\ now - EntryOf(PersistedEntries, last'.key).timestamp
              <= EntryOf(PersistedEntries, last'.key).ttl
        /\ EntryOf(PersistedEntries, last'.key).file \notin DOMAIN files) =>
        /\ last'.result = Miss
        /\ PersistedEntries' = SelectSeq(PersistedEntries, LAMBDA e : e.key # last'.key)
        /\ indexFile'.totalSize = SumSizes(PersistedEntries')
        /\ getCacheStats(indexFile, Env, now)'.totalEntries
              = Len(PersistedEntries) - 1
      ]_vars

\* A read that found a dangling entry next to another entry, which stays.
C8_Witness ==
    /\ last.op = "get" /\ last.dangling /\ last.result = Miss
    /\ Len(PersistedEntries) = 1
    /\ indexFile.totalSize = SumSizes(PersistedEntries)

\* C10 as stated: after clearCache() with no source the index is empty, totalSize
\* is 0, cleared is the number of entries the index held, and no data record
\* written by the cache is left on disk.
C10_ClearAllLeavesNothing ==
    (last.op = "clear" /\ ~last.source.given) =>
        /\ PersistedEntries = <<>>
        /\ indexFile.totalSize = 0
        /\ last.result.cleared = last.before
        /\ DOMAIN files = {}

\* The name/value pairs of a mapping, whatever their order.
PairsOf(args) == {<<args[i].name, args[i].value>> : i \in 1..Len(args)}

\* C9: two mappings with the same name/value pairs, inserted in whatever order,
\* get the same key for the same tool name; two mappings over the same names that
\* differ in the value of some argument get different keys.
C9_KeyOrderIndependence ==
    kg.done =>
        /\ PairsOf(kg.argsA) = PairsOf(kg.argsB) => kg.keyA = kg.keyB
        /\ (/\ ArgNamesOf(kg.argsA) = ArgNamesOf(kg.argsB)
            /\ PairsOf(kg.argsA) # PairsOf(kg.argsB)) => kg.keyA # kg.keyB

\* The same two pairs in opposite orders, one of them not in sorted order.
C9_Witness ==
    /\ kg.done
    /\ Len(kg.argsA) = 2
    /\ kg.argsA # kg.argsB
    /\ PairsOf(kg.argsA) = PairsOf(kg.argsB)
    /\ kg.argsA[1].name = <<"b">>
    /\ kg.keyA = kg.keyB

\* The record files written for a key: its hash under any source directory.
RecordsOf(fs, key) == {p \in DOMAIN fs : p[2] = hashKey(key)}

\* C11 as stated: after removeCached(k) completes, k is not in the index,
\* getCached(k) returns Miss, no record file that was written for k is left on
\* disk, and every other key's index entry and record are unchanged.
C11_Removal ==
    [][Called("remove") =>
        LET k   == last'.key
            pre == PersistedEntries
        IN  /\ ~HasKey(PersistedEntries', k)
            /\ GetNext(k) = Miss
            /\ RecordsOf(files', k) = {}
            /\ \A i \in 1..Len(pre) :
                  pre[i].key # k =>
                      /\ HasKey(PersistedEntries', pre[i].key)
                      /\ EntryOf(PersistedEntries', pre[i].key) = pre[i]
                      /\ \A p \in RecordsOf(files, pre[i].key) :
                            p \in DOMAIN files' /\ files'[p] = files[p]
      ]_vars

\* Sum of the per-source entry counts of a statistics result.
RECURSIVE SumCounts(_, _)
SumCounts(bySource, sources) ==
    IF sources = {} THEN 0
    ELSE LET s == CHOOSE x \in sources : TRUE
         IN  bySource[s].count + SumCounts(bySource, sources \ {s})

\* C12: getCacheStats() reports totalEntries = the number of keys in the index
\* (expired entries that were not swept included), for every source present
\* bySource[s].count = the number of index entries of source s, the per-source
\* counts add up to totalEntries, and on an empty cache totalEntries and the
\* total size are 0.
C12_Statistics ==
    last.op = "stats" =>
        LET st == last.result
            es == PersistedEntries
        IN  /\ st.totalEntries = Cardinality(IndexKeys(es))
            /\ DOMAIN st.bySource = {es[i].source : i \in 1..Len(es)}
            /\ \A s \in DOMAIN st.bySource :
                  st.bySource[s].count = Cardinality({i \in 1..Len(es) : es[i].source = s})
            /\ SumCounts(st.bySource, DOMAIN st.bySource) = st.totalEntries
            /\ es = <<>> => st.totalEntries = 0 /\ st.totalSizeMb = 0

\* Statistics over two entries of two sources, one of them expired and not swept.
C12_Witness ==
    /\ last.op = "stats"
    /\ last.result.totalEntries = 2
    /\ Cardinality(DOMAIN last.result.bySource) = 2
    /\ \E i \in 1..Len(PersistedEntries) : IsExpired(PersistedEntries[i], now)
    /\ \E i \in 1..Len(PersistedEntries) : ~IsExpired(PersistedEntries[i], now)

\* The facade operations a caller issues.
FacadeOps == {"set", "get", "remove", "clear", "invalidateExpired", "stats"}

\* C13 as stated: while config.enabled is false, every getCached returns Miss and
\* no facade operation (setCache, removeCached, clearCache, invalidateExpired)
\* changes the persisted index or any record.
C13_DisabledInert ==
    [][(~cacheEnabled /\ ~configFails /\ last'.op \in FacadeOps) =>
        /\ last'.op = "get" => last'.result = Miss
        /\ indexFile' = indexFile
        /\ files' = files
      ]_vars

\* C16 as stated: when the configuration cannot be loaded, isCacheEnabled() is
\* false, getCached returns Miss, setCache does nothing, and no public operation
\* (getCacheStats included) throws to the caller.
C16_UnreadableConfig ==
    [][(configFails /\ last'.op \in FacadeOps) =>
        /\ ~isCacheEnabled(Env)
        /\ last'.op = "get" => last'.result = Miss
        /\ last'.op = "set" => indexFile' = indexFile /\ files' = files
        /\ last'.result # Throws
      ]_vars

\* C14 as stated: when a storage step (creating a directory, writing a record,
\* writing the index file, deleting a record) fails during setCache, removeCached
\* or clearCache, the call still returns normally, without throwing.
C14_StorageFailuresAbsorbed ==
    (last.op \in {"set", "remove", "clear"} /\ last.fault # "none")
        => last.result # Throws

\* C17: getCached(k) on an index entry with now - createdAt > ttl deletes k's
\* record, removes k from the index, saves the index and returns Miss; every
\* other key's index entry and record are unchanged by the call.
C17_ExpiryOnRead ==
    [][(/\ Called("get")
        /\ cacheEnabled
        /\ HasKey(PersistedEntries, last'.key)
        /\ now - EntryOf(PersistedEntries, last'.key).timestamp
              > EntryOf(PersistedEntries, last'.key).ttl) =>
        LET k == last'.key
            e == EntryOf(PersistedEntries, k)
        IN  /\ last'.result = Miss
            /\ indexFile' # NoIndex
            /\ indexFile'.entries = SelectSeq(indexFile.entries, LAMBDA x : x.key # k)
            /\ DOMAIN files' = DOMAIN files \ {e.file}
            /\ \A p \in DOMAIN files' : files'[p] = files[p]
      ]_vars

\* A read that found its entry expired and evicted it, next to another entry
\* that is still in the index and still reads as a hit.
C17_Witness ==
    /\ last.op = "get" /\ cacheEnabled /\ last.hadKey /\ ~last.dangling
    /\ last.result = Miss
    /\ ~HasKey(PersistedEntries, last.key)
    /\ Len(PersistedEntries) = 1
    /\ GetNow(PersistedEntries[1].key) # Miss

\* C18 as stated: when the record of a live index entry k is present but does not
\* parse, getCached(k) returns Miss and removes k from the persisted index, so a
\* second getCached(k) finds k absent and getCacheStats() no longer counts k.
C18_CorruptSelfHeal ==
    [][(/\ Called("get")
        /\ cacheEnabled
        /\ HasKey(PersistedEntries, last'.key)
        /\ ~IsExpired(EntryOf(PersistedEntries, last'.key), now)
        /\ existsSync(files, EntryOf(PersistedEntries, last'.key).file)
        /\ ~JsonParses(files[EntryOf(PersistedEntries, last'.key).file])) =>
        /\ last'.result = Miss
        /\ ~HasKey(PersistedEntries', last'.key)
        /\ getCacheStats(indexFile', Env', now').totalEntries = Len(PersistedEntries) - 1
      ]_vars

\* The entries an eviction pass removed, in index order.
RemovedByPass ==
    SelectSeq(ev.index.entries, LAMBDA e : ~HasKey(ev.after.index.entries, e.key))

\* C19: an eviction pass removes entries in ascending createdAt order whatever
\* their ttl: the entries left are the others, unchanged and in their order, no
\* removed entry has a strictly later createdAt than an entry that is left, and
\* the record of every removed entry has been deleted (the others are on disk).
C19_AgeOrderedEviction ==
    ev.done =>
        LET pre  == ev.index.entries
            post == ev.after.index.entries
        IN  /\ post = SelectSeq(pre, LAMBDA e : HasKey(post, e.key))
            /\ \A i \in 1..Len(post), j \in 1..Len(RemovedByPass) :
                  ~(RemovedByPass[j].timestamp > post[i].timestamp)
            /\ \A j \in 1..Len(RemovedByPass) :
                  RemovedByPass[j].file \notin DOMAIN ev.after.files
            /\ \A i \in 1..Len(post) :
                  /\ post[i].file \in DOMAIN ev.after.files
                  /\ ev.after.files[post[i].file] = ev.files[post[i].file]

\* A pass that removed an entry with the longer ttl and kept a younger one
\* with ttl 0, the kept one standing before the removed one in the index.
C19_Witness ==
    /\ ev.done
    /\ Len(ev.index.entries) = 3
    /\ Len(RemovedByPass) = 2
    /\ HasKey(ev.after.index.entries, ev.index.entries[1].key)
    /\ ev.index.entries[1].ttl = 0
    /\ \A j \in 1..Len(RemovedByPass) :
          /\ RemovedByPass[j].ttl > 0
          /\ RemovedByPass[j].timestamp < ev.index.entries[1].timestamp

\* C20: an eviction pass for an incoming entry of size s under budget maxSize
\* stops only when the removed entries add up to >= max(s, maxSize / 10) or no
\* entry is left, and it removes nothing after that sum is reached: without the
\* entry removed last the sum is below the target.  (Sizes in tenths of a byte.)
C20_EvictionTarget ==
    ev.done =>
        LET freed  == SumSizes(RemovedByPass)
            target == Max(10 * ev.neededSpace, ev.maxSize)
            sorted == SortByTimestamp(ev.index.entries)
        IN  /\ ev.after.freedSpace = freed
            /\ 10 * freed >= target \/ ev.after.index.entries = <<>>
            /\ Len(RemovedByPass) > 0 =>
                  10 * (freed - sorted[Len(RemovedByPass)].size) < target

\* A pass where the 10% floor is above the incoming size: it went past the
\* incoming size, stopped with the floor reached and left an entry.
C20_Witness ==
    /\ ev.done
    /\ 10 * ev.neededSpace < ev.maxSize
    /\ Len(RemovedByPass) = 2
    /\ Len(ev.after.index.entries) = 1
    /\ 10 * ev.after.freedSpace >= ev.maxSize

\* C15: whenever an index file is persisted (after any mutating operation of any
\* process has completed, in any sequence or interleaving), its totalSize is the
\* sum of the size fields of its own entries.
C15_DerivedTotal ==
    indexFile # NoIndex => indexFile.totalSize = SumSizes(indexFile.entries)

\* A getCached that found its record gone and saved the index it had loaded,
\* minus the key, over an index file another process had changed meanwhile.
C15_Witness ==
    /\ last.op = "get" /\ "shared" \in DOMAIN last
    /\ ~last.inner /\ last.saved /\ last.stale
    /\ \A p \in Procs : procs[p].calls > 0
    /\ indexFile.totalSize = SumSizes(indexFile.entries)

\* C21 as stated: setCache(k, v, ...) removes entries other than k from the index
\* only if the write would take the total over maxSizeBytes, the write of a key
\* already in the index counting as a replace (total - oldSize(k) + newSize); when
\* that total is within budget every other key's entry and record are unchanged.
C21_EvictionOnlyOnOverflow ==
    [][(Called("set") /\ cacheEnabled) =>
        LET k       == last'.key
            pre     == PersistedEntries
            oldSize == IF HasKey(pre, k) THEN EntryOf(pre, k).size ELSE 0
            total   == loadIndex(indexFile, now).totalSize - oldSize
                           + Len(JsonStringify(last'.data))
        IN  /\ (\E i \in 1..Len(pre) :
                   pre[i].key # k /\ ~HasKey(PersistedEntries', pre[i].key))
                  => total > MaxSizeBytes
            /\ total <= MaxSizeBytes =>
                  \A i \in 1..Len(pre) :
                      pre[i].key # k =>
                          /\ HasKey(PersistedEntries', pre[i].key)
                          /\ EntryOf(PersistedEntries', pre[i].key) = pre[i]
                          /\ pre[i].file \in DOMAIN files'
                          /\ files'[pre[i].file] = files[pre[i].file]
      ]_vars

\* C22: when the incoming entry alone is larger than maxSizeBytes, setCache
\* returns normally, the eviction pass removes every entry the index held and
\* deletes their records, and the new entry is written and indexed: an immediate
\* getCached(k) returns it.
C22_OversizedWriteProceeds ==
    [][(Called("set") /\ cacheEnabled /\ Len(JsonStringify(last'.data)) > MaxSizeBytes) =>
        LET k   == last'.key
            pre == PersistedEntries
        IN  /\ last'.result = Void
            /\ last'.cleaned
            /\ last'.freedSpace = SumSizes(pre)
            /\ Len(PersistedEntries') = 1
            /\ PersistedEntries'[1].key = k
            /\ PersistedEntries'[1].size = Len(JsonStringify(last'.data))
            /\ \A i \in 1..Len(pre) :
                  pre[i].file # PersistedEntries'[1].file
                      => pre[i].file \notin DOMAIN files'
            /\ GetNext(k) = Hit(last'.data)
      ]_vars

\* An oversized set that emptied an index holding two entries, a full budget.
C22_Witness ==
    /\ last.op = "set" /\ cacheEnabled
    /\ SizeOfData(last.data) > MaxSizeBytes
    /\ last.cleaned /\ last.freedSpace = MaxSizeBytes
    /\ last.hadKey
    /\ Len(PersistedEntries) = 1
    /\ indexFile.totalSize > MaxSizeBytes
    /\ GetNow(last.key) = Hit(last.data)

\* C27: getCacheStats() leaves the persisted index (entries, totalSize,
\* lastCleanup) and every record unchanged: it removes no expired entry and runs
\* no eviction, so every later call finds the state the stats call found.
C27_StatsReadOnly ==
    [][Called("stats") =>
        /\ indexFile' = indexFile
        /\ files' = files
        /\ \A k \in Keys : GetNext(k) = GetNow(k)
      ]_vars

\* Statistics taken over an index that is over budget and whose entries have all
\* expired: the entries are still there.
C27_Witness ==
    /\ last.op = "stats"
    /\ last.result.totalEntries > 0
    /\ \A i \in 1..Len(PersistedEntries) : IsExpired(PersistedEntries[i], now)
    /\ \A i \in 1..Len(PersistedEntries) : PersistedEntries[i].file \in DOMAIN files
    /\ indexFile.totalSize > MaxSizeBytes

---------------------------------------------------------------------------
(* The one-process machine on storage where the write of a record file     *)
(* can fail (a full disk, a read-only directory): setCache logs the        *)
(* failure and returns before it updates or saves the index.               *)

NextWriteFails ==
    \/ NextOmitted
    \/ \E key \in Keys, data \in DataValues :
          SetCacheFault(key, data, Omitted, Omitted, "writeRecord")

SpecWriteFails == Init /\ [][NextWriteFails]_vars

\* C30: a setCache whose record write fails returns normally and leaves the
\* persisted index (entries, totalSize, lastCleanup, or its absence) exactly as it
\* was before the call, also when the eviction pass of that call had already run;
\* no record is written.
C30_FailedWriteKeepsIndex ==
    [][(Called("set") /\ last'.fault = "writeRecord") =>
          /\ indexFile' = indexFile
          /\ last'.result = Void
          /\ \A p \in DOMAIN files' : p \in DOMAIN files /\ files'[p] = files[p]]_vars

\* A failed record write after an eviction pass that freed space, the index as
\* it was: still listing the two entries, totalSize the full budget.
C30_Witness ==
    /\ last.op = "set"
    /\ last.fault = "writeRecord"
    /\ last.cleaned
    /\ last.freedSpace > 0
    /\ Len(PersistedEntries) = 2
    /\ indexFile.totalSize = MaxSizeBytes

\* C28: in one process with no out-of-band change, after every completed call
\* (sets whose record write fails included) every key of the persisted index has
\* its record file at the path the index entry names.
C28_IndexRecordAgreement ==
    \A i \in 1..Len(PersistedEntries) : existsSync(files, PersistedEntries[i].file)

---------------------------------------------------------------------------
(* The one-process machine with the index file lost behind the cache's     *)
(* back: deleted, or left with content that does not parse.  The record    *)
(* files stay where they are.                                              *)

IndexLosses == {NoIndex, Unparseable}

OutOfBandIndexLoss(left) ==
    /\ indexFile \notin IndexLosses
    /\ indexFile' = left
    /\ last' = [op |-> "external"]
    /\ written' = Tracked(written, left)
    /\ UNCHANGED <<files, now, cacheEnabled, kg, configFails, ev, procs>>

NextUnreadable ==
    \/ NextOmitted
    \/ \E left \in IndexLosses : OutOfBandIndexLoss(left)

SpecUnreadable == Init /\ [][NextUnreadable]_vars

\* The index a setCache saves when it started from no entries.
OnlyEntry(key, data, ttl, source, t) ==
    [entries |-> <<[key |-> key, file |-> FileName(source, key), timestamp |-> t,
                    ttl |-> ttl, size |-> SizeOfData(data), source |-> source]>>,
     totalSize |-> SizeOfData(data), lastCleanup |-> t]

\* C23: while the index file is absent or does not parse, loading it yields the
\* empty index (no entries, totalSize 0) and no call throws; getCached returns
\* Miss for every key, record files on disk or not; and the next call that saves
\* persists an index built from the empty one: setCache the index holding just
\* its entry, clearCache the empty index; the other calls leave the file as it is.
C23_UnreadableIndexResets ==
    [][(indexFile \in IndexLosses /\ cacheEnabled /\ last'.op \in FacadeOps) =>
          /\ loadIndex(indexFile, now) = [entries |-> <<>>, totalSize |-> 0,
                                          lastCleanup |-> now]
          /\ \A k \in Keys : GetNow(k) = Miss
          /\ last'.result # Throws
          /\ Called("get") => last'.result = Miss
          /\ Called("set") =>
                indexFile' = OnlyEntry(last'.key, last'.data, last'.ttl, last'.source, now)
          /\ Called("clear") =>
                indexFile' = [entries |-> <<>>, totalSize |-> 0, lastCleanup |-> now]
          /\ last'.op \in {"get", "remove", "invalidateExpired", "stats"} =>
                indexFile' = indexFile
      ]_vars

\* A setCache on a cache whose index was lost while it held another key: the
\* saved index holds the new entry alone, the other key's record is still on disk
\* and reads as a miss.
C23_Witness ==
    /\ last.op = "set" /\ cacheEnabled /\ ~last.hadKey
    /\ indexFile = OnlyEntry(last.key, last.data, last.ttl, last.source, now)
    /\ \E k \in Keys \ {last.key} :
          /\ existsSync(files, FileName(last.source, k))
          /\ GetNow(k) = Miss

\* The entries of an index file for the keys other than key.
OtherEntries(ix, key) == SelectSeq(loadIndex(ix, now).entries, LAMBDA e : e.key # key)

\* C25: with two processes and no lock, a setCache or removeCached that saves
\* writes back, for every other key, what it loaded (eviction aside): when the
\* other process saved in between, that save's structural change is overwritten;
\* when the call loaded the index file as it still is at its save (the calls ran
\* one after the other), no other key's entry is lost or changed.
C25_LostUpdate ==
    [][\A p \in Procs :
          (/\ procs[p].pc = "loaded" /\ procs'[p].pc = "idle"
           /\ procs[p].call.op \in {"set", "remove"}
           /\ last'.saved /\ ~last'.cleaned) =>
              /\ OtherEntries(indexFile', procs[p].call.key)
                    = OtherEntries(procs[p].index, procs[p].call.key)
              /\ ~last'.stale =>
                    OtherEntries(indexFile', procs[p].call.key)
                       = OtherEntries(indexFile, procs[p].call.key)
      ]_vars

\* Two setCache calls, one per process, both completed, the second on an index
\* loaded before the first saved: both records are on disk and the persisted
\* index holds only one of k1, k2.
C25_Witness ==
    /\ last.op = "set" /\ last.saved /\ last.stale /\ ~last.cleaned
    /\ \A p \in Procs : procs[p].pc = "idle" /\ procs[p].calls = 1
    /\ \A k \in {"k1", "k2"} : existsSync(files, FileName("unknown", k))
    /\ Len(PersistedEntries) = 1

---------------------------------------------------------------------------
(* Several processes, with saveIndex in two steps: writeFileSync opens     *)
(* index.json truncating it, then writes the new content.  Between the two *)
(* the file holds less than the new content, which does not parse; another *)
(* process may run loadIndex there.                                        *)

\* A call ends without writing the index file.
FinishUnsaved(p) == FinishCall(p) /\ ~last'.saved

\* The call's file operations, then saveIndex opens the index file.
SaveBegins(p) ==
    /\ procs[p].pc = "loaded"
    /\ ~ExpiredOnRead(procs[p].call, procs[p].index, now)
    /\ \E r \in {CallResult(procs[p].call, procs[p].index, files, now)} :
          /\ r.saved
          /\ indexFile' = Unparseable
          /\ files' = r.files
          /\ procs' = [procs EXCEPT ![p] = [pc |-> "saving", calls |-> @.calls,
                                            call |-> @.call, inner |-> @.inner,
                                            index |-> @.index, pending |-> r.indexFile]]
    /\ last' = NoCall
    /\ UNCHANGED <<now, cacheEnabled, written, kg, configFails, ev>>

\* saveIndex has written the whole content.
SaveEnds(p) ==
    /\ procs[p].pc = "saving"
    /\ indexFile' = procs[p].pending
    /\ last' = [op |-> IF procs[p].inner THEN "get" ELSE procs[p].call.op,
                shared |-> TRUE, inner |-> procs[p].inner, saved |-> TRUE,
                stale |-> FALSE, cleaned |-> FALSE]
    /\ procs' = [procs EXCEPT ![p] = [pc |-> "idle", calls |-> @.calls]]
    /\ UNCHANGED <<files, now, cacheEnabled, written, kg, configFails, ev>>

NextTornSave ==
    \/ Tick
    \/ \E p \in Procs, c \in SharedCalls : BeginCall(p, c)
    \/ \E p \in Procs : ReloadForRemove(p)
    \/ \E p \in Procs : FinishUnsaved(p)
    \/ \E p \in Procs : SaveBegins(p)
    \/ \E p \in Procs : SaveEnds(p)

SpecTornSave == Init /\ [][NextTornSave]_vars

\* C24 as stated: a process that loads the index while another is saving it
\* reads the complete previous or the complete new index, never content that
\* does not parse, and so never falls back to the empty index because of a save
\* in progress.
C24_AtomicSave ==
    \A p \in Procs :
       procs[p].pc \in {"loaded", "saving"} => procs[p].index # Unparseable

---------------------------------------------------------------------------
(* The one-process machine over two distinct keys with the same md5        *)
(* digest, stored under the same source: both index entries name the file  *)
(* `unknown/<digest>.json`.  The payloads are two numbers of one byte, so  *)
(* that both entries fit the budget.                                       *)

CollidingKeys == {"k1", "k1c"}

CollidingData == {Num(7), Num(8)}

NextColliding ==
    \/ Tick
    \/ \E key \in CollidingKeys, data \in CollidingData :
          SetCache(key, data, Omitted, Omitted)
    \/ \E key \in CollidingKeys : GetCached(key)
    \/ \E key \in CollidingKeys : RemoveCached(key)
    \/ ClearCache(Omitted)
    \/ InvalidateExpired

SpecColliding == Init /\ [][NextColliding]_vars

\* C26 as stated: for two distinct keys with equal hashes under one source, a
\* setCache or removeCached of one key leaves what getCached returns for the
\* other, live key as it was: after setCache(k1, v1) and setCache(k2, v2) each
\* key reads its own value, and removeCached(k2) does not make getCached(k1)
\* miss.  (Sets that ran an eviction pass aside.)
C26_CollisionsHarmless ==
    [][((Called("set") /\ ~last'.cleaned) \/ Called("remove")) =>
          \A k \in CollidingKeys \ {last'.key} :
             GetNow(k) # Miss => GetNext(k) = GetNow(k)
      ]_vars

---------------------------------------------------------------------------
(* Several processes, setCache with or without a ttlMs of its own, and a   *)
(* record of every write: written[k] is the set of the setCache calls that *)
(* stored k, each with its data, its write time and its TTL.               *)

RecordedCalls ==
    {[op |-> "set", key |-> k, data |-> d, ttl |-> ttl] :
        k \in Keys, d \in DataValues, ttl \in TtlInputs}
    \cup {[op |-> o, key |-> k] : o \in {"get", "remove"}, k \in Keys}
    \cup {[op |-> "clear"], [op |-> "invalidateExpired"]}

InitRecorded ==
    /\ indexFile = NoIndex
    /\ files = <<>>
    /\ now = 0
    /\ cacheEnabled = TRUE
    /\ last = NoCall
    /\ written = [k \in Keys |-> {}]
    /\ kg = NoKeys
    /\ configFails = FALSE
    /\ ev = NoPass
    /\ procs = [p \in Procs |-> Idle]

\* written after a call: a setCache that stored its record adds its write.
Recorded(c, r, t) ==
    IF c.op = "set" /\ r.saved
    THEN [k \in Keys |->
            IF k = c.key
            THEN written[k] \cup {[data |-> c.data, timestamp |-> t,
                                   ttl |-> ActualTtl(CallTtl(c))]}
            ELSE written[k]]
    ELSE written

\* FinishCall, keeping the call's key and return value and recording its write.
FinishCallRecorded(p) ==
    /\ procs[p].pc = "loaded"
    /\ ~ExpiredOnRead(procs[p].call, procs[p].index, now)
    /\ \E r \in {CallResult(procs[p].call, procs[p].index, files, now)} :
          /\ indexFile' = IF r.saved THEN r.indexFile ELSE indexFile
          /\ files' = r.files
          /\ last' = [op |-> IF procs[p].inner THEN "get" ELSE procs[p].call.op,
                      shared |-> TRUE, inner |-> procs[p].inner, saved |-> r.saved,
                      stale |-> procs[p].index # indexFile,
                      cleaned |-> procs[p].call.op = "set" /\ r.cleaned,
                      call |-> procs[p].call,
                      result |-> IF procs[p].inner THEN Miss ELSE r.result]
          /\ written' = Recorded(procs[p].call, r, now)
    /\ procs' = [procs EXCEPT ![p] = [pc |-> "idle", calls |-> @.calls]]
    /\ UNCHANGED <<now, cacheEnabled, kg, configFails, ev>>

NextRecorded ==
    \/ Tick
    \/ \E p \in Procs, c \in RecordedCalls : BeginCall(p, c)
    \/ \E p \in Procs : ReloadForRemove(p)
    \/ \E p \in Procs : FinishCallRecorded(p)

SpecRecorded == InitRecorded /\ [][NextRecorded]_vars

\* C29 as stated: in every interleaving of the calls of several processes, when
\* getCached(k) returns a value v at time now, some setCache(k, v, ttl) stored v
\* at a time t0 with now - t0 <= ttl.
C29_NoStaleHit ==
    (last.op = "get" /\ last.result # Miss) =>
        \E w \in written[last.call.key] :
            /\ w.data = last.result.data
            /\ now - w.timestamp <= w.ttl

=============================================================================
